---- MODULE Spec2Model ----
(***************************************************************************)
(* Model of the tool-using agent: ToolAgent.run (tool_agent.py), its       *)
(* response parser, the tool registry (tools.py) and the generation client *)
(* (llm.py).  One step of the model is one round of the agent loop.        *)
(*                                                                         *)
(* Python values are tagged records; a dict keeps its items in insertion   *)
(* order as a sequence of <<key, value>> pairs.  A text is a sequence of   *)
(* tokens: braces, brackets, literals, prose words and object member lists.*)
(***************************************************************************)
EXTENDS Integers, Sequences, FiniteSets, TLC

\* Largest iteration ceiling the model explores.
MaxIterBound == 3

-----------------------------------------------------------------------------
(* Python / JSON values *)

None == [t |-> "null"]
Bool(b) == [t |-> "bool", b |-> b]
Num(n) == [t |-> "num", n |-> n]
Str(s) == [t |-> "str", s |-> s]
List(e) == [t |-> "list", elems |-> e]
Dict(items) == [t |-> "obj", items |-> items]
\* the exact quotient a / b of true division
Quot(a, b) == [t |-> "quot", num |-> a, den |-> b]
\* a str made of URL parts, e.g. "https://" "www." "python.org" "/"
Url(parts) == [t |-> "url", parts |-> parts]
Tuple2(x, y) == [t |-> "tuple", fst |-> x, snd |-> y]

\* bool(v): Python truth value
Truthy(v) ==
    CASE v.t = "null" -> FALSE
      [] v.t = "bool" -> v.b
      [] v.t = "num" -> v.n # 0
      [] v.t = "str" -> v.s # ""
      [] v.t = "url" -> v.parts # <<>>
      [] v.t = "list" -> v.elems # <<>>
      [] v.t = "obj" -> v.items # <<>>
      [] OTHER -> TRUE

\* hash(v) is defined: lists and dicts are unhashable
Hashable(v) == v.t \notin {"list", "obj"}

HasKey(d, key) == \E i \in 1..Len(d.items) : d.items[i][1] = key

\* dict.get(key, default)
get(d, key, default) ==
    IF HasKey(d, key)
    THEN d.items[CHOOSE i \in 1..Len(d.items) : d.items[i][1] = key][2]
    ELSE default

KeysOf(d) == {d.items[i][1] : i \in 1..Len(d.items)}

\* the keys of the model in the order Python sorts them
SortedKeys == <<"a", "answer", "arguments", "b", "bogus", "done", "extract",
                "max_results", "operation", "query", "reason", "refuse",
                "tool", "url">>

RECURSIVE SortItems(_, _)
SortItems(items, k) ==
    IF k > Len(SortedKeys) THEN <<>>
    ELSE SelectSeq(items, LAMBDA it : it[1] = SortedKeys[k])
         \o SortItems(items, k + 1)

\* json.dumps that ignores sort_keys
json_dumps_unsorted(v, sort_keys) == v

\* json.dumps(v, sort_keys=...): the rendering of a value; a dict is rendered
\* item by item, in insertion order or in key order
json_dumps(v, sort_keys) ==
    IF v.t = "obj" /\ sort_keys THEN Dict(SortItems(v.items, 1)) ELSE v

-----------------------------------------------------------------------------
(* Texts and the response parser *)

W == [k |-> "word"]
LB == [k |-> "{"]
RB == [k |-> "}"]
LK == [k |-> "["]
RK == [k |-> "]"]
Lit(v) == [k |-> "lit", v |-> v]
Mem(items) == [k |-> "mem", items |-> items]

Ok(v) == [ok |-> TRUE, v |-> v]
JSONDecodeError == [ok |-> FALSE]

\* json.loads(s): the whole text is one JSON value, or JSONDecodeError
RECURSIVE json_loads(_)
json_loads(s) ==
    LET n == Len(s) IN
    IF n = 1 /\ s[1].k = "lit" THEN Ok(s[1].v)
    ELSE IF n = 2 /\ s[1].k = "[" /\ s[2].k = "]" THEN Ok(List(<<>>))
    ELSE IF n > 2 /\ s[1].k = "[" /\ s[n].k = "]" THEN
        LET inner == json_loads(SubSeq(s, 2, n - 1)) IN
        IF inner.ok THEN Ok(List(<<inner.v>>)) ELSE JSONDecodeError
    ELSE IF n = 2 /\ s[1].k = "{" /\ s[2].k = "}" THEN Ok(Dict(<<>>))
    ELSE IF n = 3 /\ s[1].k = "{" /\ s[2].k = "mem" /\ s[3].k = "}"
        THEN Ok(Dict(s[2].items))
    ELSE JSONDecodeError

\* str.find / str.rfind of a one-token pattern, 0-based, -1 when absent
find(s, k) ==
    IF \E i \in 1..Len(s) : s[i].k = k
    THEN (CHOOSE i \in 1..Len(s) :
             s[i].k = k /\ \A j \in 1..(i - 1) : s[j].k # k) - 1
    ELSE -1

rfind(s, k) ==
    IF \E i \in 1..Len(s) : s[i].k = k
    THEN (CHOOSE i \in 1..Len(s) :
             s[i].k = k /\ \A j \in (i + 1)..Len(s) : s[j].k # k) - 1
    ELSE -1

\* ToolAgent._parse_response: the parsed value, or None
_parse_response(response) ==
    LET strict == json_loads(response) IN
    IF strict.ok THEN strict.v
    ELSE LET start == find(response, "{")
             end == rfind(response, "}") + 1
         IN IF start # -1 /\ end > start
            THEN LET rec == json_loads(SubSeq(response, start + 1, end))
                 IN IF rec.ok THEN rec.v ELSE None
            ELSE None

-----------------------------------------------------------------------------
(* Tools (tools.py).  A message is a sequence of text fragments. *)

\* a Tool Result is a dict: 'success' and the keys of its case
Success(fields) == [success |-> TRUE] @@ fields
Failure(msg) == [success |-> FALSE, error |-> msg]

Returned(v) == [raised |-> FALSE, v |-> v]
Raised(type, msg) == [raised |-> TRUE, type |-> type, msg |-> msg]

\* the text of a value inside a formatted message
Text(v) == IF v.t = "str" THEN v.s ELSE v.t

\* a + b, a - b, a * b, a / b on numbers and strings
Arith(operation, a, b) ==
    LET nums == a.t = "num" /\ b.t = "num"
        TypeError == Raised("TypeError", <<"unsupported operand type(s)">>)
    IN CASE operation = "add" ->
              IF nums THEN Returned(Num(a.n + b.n))
              ELSE IF a.t = "str" /\ b.t = "str"
              THEN Returned([t |-> "concat", l |-> a.s, r |-> b.s])
              ELSE TypeError
         [] operation = "subtract" ->
              IF nums THEN Returned(Num(a.n - b.n)) ELSE TypeError
         [] operation = "multiply" ->
              IF nums THEN Returned(Num(a.n * b.n))
              ELSE IF a.t = "str" /\ b.t = "num"
              THEN Returned([t |-> "repeat", s |-> a.s, n |-> b.n])
              ELSE IF a.t = "num" /\ b.t = "str"
              THEN Returned([t |-> "repeat", s |-> b.s, n |-> a.n])
              ELSE TypeError
         [] operation = "divide" ->
              IF nums THEN Returned(Quot(a.n, b.n)) ELSE TypeError

\* a calculator without the b == 0 test: the ZeroDivisionError of a / b is
\* caught and its message returned
calculator_unchecked_division(operation, a, b) ==
    IF operation \in {Str("add"), Str("subtract"), Str("multiply"),
                      Str("divide")}
    THEN LET r == IF operation = Str("divide") /\ b = Num(0)
                  THEN Raised("ZeroDivisionError", <<"division by zero">>)
                  ELSE Arith(operation.s, a, b)
         IN IF r.raised THEN Failure(r.msg)
            ELSE Success([result |-> r.v, operation |-> operation,
                          inputs |-> [a |-> a, b |-> b]])
    ELSE Failure(<<"Unknown operation: ", Text(operation)>>)

calculator(operation, a, b) ==
    IF operation \in {Str("add"), Str("subtract"), Str("multiply")}
       \/ (operation = Str("divide") /\ b # Num(0))
    THEN LET r == Arith(operation.s, a, b) IN
         IF r.raised THEN Failure(r.msg)
         ELSE Success([result |-> r.v, operation |-> operation,
                       inputs |-> [a |-> a, b |-> b]])
    ELSE IF operation = Str("divide")
    THEN Failure(<<"Cannot ", "divide by zero">>)
    ELSE Failure(<<"Unknown operation: ", Text(operation)>>)

\* web_fetch's mock_data keys
MockHosts == {"example.com", "python.org", "github.com"}

RECURSIVE strip(_)
\* strip("/"): drop the slashes at both ends
strip(parts) ==
    IF parts = <<>> THEN parts
    ELSE IF Head(parts) = "/" THEN strip(Tail(parts))
    ELSE IF parts[Len(parts)] = "/"
    THEN strip(SubSeq(parts, 1, Len(parts) - 1))
    ELSE parts

\* url.replace("http://", "").replace("https://", "").replace("www.", "")
\*    .strip("/")
url_clean(parts) ==
    strip(SelectSeq(parts,
                    LAMBDA p : p \notin {"http://", "https://", "www."}))

web_fetch(url, extract) ==
    IF url.t # "url"
    THEN Failure(<<"'", url.t, "' object has no attribute 'replace'">>)
    ELSE LET clean == url_clean(url.parts) IN
         IF Len(clean) = 1 /\ clean[1] \in MockHosts
         THEN IF extract \in {Str("title"), Str("summary"), Str("content")}
              THEN Success([url |-> url, extract_type |-> extract,
                            content |-> <<clean[1], extract.s>>])
              ELSE Failure(<<"Unknown extract type: ", Text(extract)>>)
         ELSE Failure(<<"URL not found in mock data. Available: ",
                        "example.com, python.org, github.com">>)

\* the sample corpus written by _create_sample_docs
SampleDocs == {"python_intro.txt", "machine_learning.txt",
               "web_development.txt"}

\* str.lower() of the queries of the model
lower(s) == IF s = "Python" THEN "python" ELSE s

\* content.lower().count(query_lower) for the sample corpus
count(filename, q) ==
    CASE q = "python" /\ filename = "python_intro.txt" -> 4
      [] q = "python" /\ filename = "web_development.txt" -> 1
      [] q = "web" /\ filename = "web_development.txt" -> 7
      [] q = "web" /\ filename = "python_intro.txt" -> 1
      [] q = "learning" /\ filename = "machine_learning.txt" -> 9
      [] OTHER -> 0

RECURSIVE sort_by_relevance(_)
\* results.sort(key=relevance, reverse=True)
sort_by_relevance(rs) ==
    IF rs = {} THEN <<>>
    ELSE LET top == CHOOSE r \in rs :
                        \A o \in rs : o.relevance <= r.relevance
         IN <<top>> \o sort_by_relevance(rs \ {top})

\* results[:m]
slice_to(rs, m) ==
    IF m >= 0
    THEN SubSeq(rs, 1, IF m < Len(rs) THEN m ELSE Len(rs))
    ELSE SubSeq(rs, 1, IF Len(rs) + m > 0 THEN Len(rs) + m ELSE 0)

\* the docs directory after search_docs made sure it exists
ensure_docs(d) ==
    IF d.exists THEN d ELSE [exists |-> TRUE, files |-> SampleDocs]

\* a search that reports an empty result list under the 'error' key
search_docs_empty_is_error(query, max_results, d) ==
    IF query.t # "str"
    THEN Failure(<<"'", query.t, "' object has no attribute 'lower'">>)
    ELSE LET q == lower(query.s)
             hits == {[filename |-> f, snippet |-> <<f, q>>,
                       relevance |-> count(f, q)] :
                      f \in {g \in ensure_docs(d).files : count(g, q) > 0}}
         IN IF max_results.t # "num"
            THEN Failure(<<"slice indices must be integers">>)
            ELSE LET results == slice_to(sort_by_relevance(hits),
                                         max_results.n)
                 IN IF results = <<>>
                    THEN Success([results |-> <<>>,
                                  error |-> <<"No documents found matching '",
                                              query.s, "'">>])
                    ELSE Success([results |-> results, query |-> query,
                                  count |-> Len(results)])

\* search_docs(query, max_results) on the docs directory d
search_docs(query, max_results, d) ==
    IF query.t # "str"
    THEN Failure(<<"'", query.t, "' object has no attribute 'lower'">>)
    ELSE LET q == lower(query.s)
             hits == {[filename |-> f, snippet |-> <<f, q>>,
                       relevance |-> count(f, q)] :
                      f \in {g \in ensure_docs(d).files : count(g, q) > 0}}
         IN IF max_results.t # "num"
            THEN Failure(<<"slice indices must be integers">>)
            ELSE LET results == slice_to(sort_by_relevance(hits),
                                         max_results.n)
                 IN IF results = <<>>
                    THEN Success([results |-> <<>>,
                                  message |-> <<"No documents found matching '",
                                                query.s, "'">>])
                    ELSE Success([results |-> results, query |-> query,
                                  count |-> Len(results)])

\* TOOLS: the registry, name -> parameters of the function
TOOLS == {"calculator", "search_docs", "web_fetch"}

Params(name) ==
    CASE name = "calculator" -> {"operation", "a", "b"}
      [] name = "search_docs" -> {"query", "max_results"}
      [] name = "web_fetch" -> {"url", "extract"}

Required(name) ==
    CASE name = "calculator" -> {"operation", "a", "b"}
      [] name = "search_docs" -> {"query"}
      [] name = "web_fetch" -> {"url"}

\* tool["function"](**arguments): the call binds, or TypeError
Binds(name, arguments) ==
    /\ arguments.t = "obj"
    /\ KeysOf(arguments) \subseteq Params(name)
    /\ Required(name) \subseteq KeysOf(arguments)

\* execute_tool(tool_name, arguments) with the docs directory d:
\* the Tool Result and the docs directory afterwards, or the raised fault
execute_tool(tool_name, arguments, d) ==
    IF ~Hashable(tool_name)
    THEN Raised("TypeError", <<"unhashable type: '", tool_name.t, "'">>)
    ELSE IF tool_name.t # "str" \/ tool_name.s \notin TOOLS
    THEN Returned([result |-> Failure(<<"Tool '", Text(tool_name), "' ",
                                        "not found", ". Available tools: ",
                                        "calculator, search_docs, web_fetch">>),
                   docs |-> d])
    ELSE IF ~Binds(tool_name.s, arguments)
    THEN Returned([result |-> Failure(<<"Invalid arguments", " for tool '",
                                        tool_name.s, "': ", "TypeError">>),
                   docs |-> d])
    ELSE CASE tool_name.s = "calculator" ->
                Returned([result |-> calculator(get(arguments, "operation", None),
                                                get(arguments, "a", None),
                                                get(arguments, "b", None)),
                          docs |-> d])
           [] tool_name.s = "search_docs" ->
                Returned([result |-> search_docs(get(arguments, "query", None),
                                                 get(arguments, "max_results",
                                                     Num(3)), d),
                          docs |-> ensure_docs(d)])
           [] tool_name.s = "web_fetch" ->
                Returned([result |-> web_fetch(get(arguments, "url", None),
                                               get(arguments, "extract",
                                                   Str("content"))),
                          docs |-> d])

-----------------------------------------------------------------------------
(* Generation client (llm.py) *)

\* call_llm's default max_retries
max_retries == 3

\* call_llm when the first `failures` requests fail in transport and the
\* next one answers `text`: the reply, or the terminal fault once
\* max_retries requests have failed
call_llm(failures, text) ==
    IF failures >= max_retries
    THEN Raised("Exception", <<"LLM call failed after ", "max_retries",
                               " attempts">>)
    ELSE Returned(text)

-----------------------------------------------------------------------------
(* The agent loop (tool_agent.py) *)

\* the prompt is the sequence of the segments appended so far
InitialPrompt(question) == <<[seg |-> "initial", tools |-> TOOLS,
                              question |-> question]>>
JsonErrorSeg == [seg |-> "Error: Your response was not valid JSON."]
NoToolSeg == [seg |-> "Error: You must specify a tool name or set 'done': true."]
ForcedSeg == [seg |-> "You just called the same tool with the same arguments."]
ToolSeg(tool_name, arguments, result) ==
    [seg |-> IF Truthy(Bool(result.success))
             THEN "Now decide: Is the user's question fully answered?"
             ELSE "The tool returned an error. Respond with: done",
     tool |-> tool_name, arguments |-> json_dumps(arguments, FALSE),
     result |-> result]

\* the strings run returns
RefuseMessage(reason) ==
    [t |-> "fstr", text |-> "I cannot complete this task: ", reason |-> reason]
ErrorMessage(msg) == [t |-> "fstr", text |-> "Error: ", e |-> msg]
\* a budget message that reports the rounds instead of the tool calls
BudgetMessage_rounds(max, calls) ==
    [t |-> "fstr", text |-> "Could not complete task within", max |-> max,
     calls |-> max]

BudgetMessage(max, calls) ==
    [t |-> "fstr", text |-> "Could not complete task within", max |-> max,
     calls |-> calls]

\* a classification that looks at 'tool' first
classify_tool_first(parsed) ==
    IF Truthy(get(parsed, "tool", None)) THEN "tool"
    ELSE IF Truthy(get(parsed, "done", None)) THEN "done"
    ELSE IF Truthy(get(parsed, "refuse", None)) THEN "refuse"
    ELSE "no_tool"

\* the branch a parsed record takes in run
classify(parsed) ==
    IF Truthy(get(parsed, "done", None)) THEN "done"
    ELSE IF Truthy(get(parsed, "refuse", None)) THEN "refuse"
    ELSE IF ~Truthy(get(parsed, "tool", None)) THEN "no_tool"
    ELSE "tool"

\* parsed.get("answer") without the default
done_answer_no_default(parsed) == get(parsed, "answer", None)

done_answer(parsed) == get(parsed, "answer", Str("Task completed."))

\* parsed.get("reason") without the default
refuse_answer_no_default(parsed) == RefuseMessage(get(parsed, "reason", None))

refuse_answer(parsed) ==
    RefuseMessage(get(parsed, "reason", Str("Tool not appropriate")))

\* current_call = (tool_name, json.dumps(arguments, sort_keys=True))
fingerprint(tool_name, arguments) ==
    Tuple2(tool_name, json_dumps(arguments, TRUE))

\* how a round leaves the loop body, and the locals of run afterwards
Step(ctl, p, last, hist, d, executed, out) ==
    [ctl |-> ctl, prompt |-> p, last |-> last, hist |-> hist, docs |-> d,
     executed |-> executed, out |-> out]

\* a Malformed round that also forgets the previous call
malformed_round_forgets(p, last, hist, d) ==
    Step("continue", Append(p, JsonErrorSeg), None, hist, d, FALSE, None)

\* the round for a response that is not valid JSON
malformed_round(p, last, hist, d) ==
    Step("continue", Append(p, JsonErrorSeg), last, hist, d, FALSE, None)

\* a round without a tool name that also forgets the previous call
no_tool_round_forgets(p, last, hist, d) ==
    Step("continue", Append(p, NoToolSeg), None, hist, d, FALSE, None)

\* the round for a record without a tool name
no_tool_round(p, last, hist, d) ==
    Step("continue", Append(p, NoToolSeg), last, hist, d, FALSE, None)

\* a suppressed round that keeps the stored fingerprint
repeated_round_keeps(p, last, hist, d) ==
    Step("continue", Append(p, ForcedSeg), last, hist, d, FALSE, None)

\* the round for a call equal to the previous one
repeated_round(p, last, hist, d) ==
    Step("continue", Append(p, ForcedSeg), None, hist, d, FALSE, None)

\* a tool round that returns the error of a failed tool
tool_round_failure_returns(p, current_call, hist, d, tool_name, arguments) ==
    LET x == execute_tool(tool_name, arguments, d) IN
    IF x.raised
    THEN Step("raise", p, current_call, hist, d, FALSE, x)
    ELSE IF ~x.v.result.success
    THEN Step("return", p, current_call, hist, x.v.docs, TRUE,
              ErrorMessage(x.v.result.error))
    ELSE Step("continue",
              Append(p, ToolSeg(tool_name, arguments, x.v.result)),
              current_call,
              Append(hist, [tool |-> tool_name, arguments |-> arguments,
                            result |-> x.v.result]),
              x.v.docs, TRUE, None)

\* a tool round that does not store the fingerprint of its call
tool_round_forgets(p, current_call, hist, d, tool_name, arguments) ==
    LET x == execute_tool(tool_name, arguments, d) IN
    IF x.raised
    THEN Step("raise", p, None, hist, d, FALSE, x)
    ELSE Step("continue",
              Append(p, ToolSeg(tool_name, arguments, x.v.result)),
              None,
              Append(hist, [tool |-> tool_name, arguments |-> arguments,
                            result |-> x.v.result]),
              x.v.docs, TRUE, None)

\* a tool round that records the call and leaves its transcript out of the
\* prompt
tool_round_silent(p, current_call, hist, d, tool_name, arguments) ==
    LET x == execute_tool(tool_name, arguments, d) IN
    IF x.raised
    THEN Step("raise", p, current_call, hist, d, FALSE, x)
    ELSE Step("continue", p, current_call,
              Append(hist, [tool |-> tool_name, arguments |-> arguments,
                            result |-> x.v.result]),
              x.v.docs, TRUE, None)

\* a tool round that rebuilds the prompt from the initial prompt and the
\* latest transcript
tool_round_rewrites(p, current_call, hist, d, tool_name, arguments) ==
    LET x == execute_tool(tool_name, arguments, d) IN
    IF x.raised
    THEN Step("raise", p, current_call, hist, d, FALSE, x)
    ELSE Step("continue",
              <<p[1], ToolSeg(tool_name, arguments, x.v.result)>>,
              current_call,
              Append(hist, [tool |-> tool_name, arguments |-> arguments,
                            result |-> x.v.result]),
              x.v.docs, TRUE, None)

\* the round that executes the tool
tool_round(p, current_call, hist, d, tool_name, arguments) ==
    LET x == execute_tool(tool_name, arguments, d) IN
    IF x.raised
    THEN Step("raise", p, current_call, hist, d, FALSE, x)
    ELSE Step("continue",
              Append(p, ToolSeg(tool_name, arguments, x.v.result)),
              current_call,
              Append(hist, [tool |-> tool_name, arguments |-> arguments,
                            result |-> x.v.result]),
              x.v.docs, TRUE, None)

\* the body of the try statement of one round, for call_llm's outcome r
try_body(p, last, hist, d, r) ==
    IF r.raised THEN Step("raise", p, last, hist, d, FALSE, r)
    ELSE LET parsed == _parse_response(r.v) IN
      IF parsed = None THEN malformed_round(p, last, hist, d)
      ELSE IF parsed.t # "obj"
      THEN Step("raise", p, last, hist, d, FALSE,
                Raised("AttributeError",
                       <<"'", parsed.t, "' object has no attribute 'get'">>))
      ELSE LET c == classify(parsed)
               tool_name == get(parsed, "tool", None)
               arguments == get(parsed, "arguments", Dict(<<>>))
               current_call == fingerprint(tool_name, arguments)
           IN CASE c = "done" ->
                     Step("return", p, last, hist, d, FALSE,
                          done_answer(parsed))
                [] c = "refuse" ->
                     Step("return", p, last, hist, d, FALSE,
                          refuse_answer(parsed))
                [] c = "no_tool" -> no_tool_round(p, last, hist, d)
                [] c = "tool" ->
                     IF current_call = last
                     THEN repeated_round(p, last, hist, d)
                     ELSE tool_round(p, current_call, hist, d, tool_name,
                                     arguments)

\* a handler that catches only the fault of the generation client
except_handler_narrow(o) ==
    IF o.ctl = "raise" /\ o.out.type = "Exception"
    THEN [o EXCEPT !.ctl = "return", !.out = ErrorMessage(o.out.msg)]
    ELSE o

\* a handler that goes on with the next round
except_handler_retry(o) ==
    IF o.ctl = "raise" THEN [o EXCEPT !.ctl = "continue", !.out = None] ELSE o

\* except Exception as e: return f"Error: {str(e)}"
except_handler(o) ==
    IF o.ctl = "raise"
    THEN [o EXCEPT !.ctl = "return", !.out = ErrorMessage(o.out.msg)]
    ELSE o

\* one iteration of the while loop of run
run_round(p, last, hist, d, r) == except_handler(try_body(p, last, hist, d, r))

-----------------------------------------------------------------------------
(* The replies the model draws from *)

Record(items) == <<LB, Mem(items), RB>>
Call(name, args) ==
    Record(<<<<"tool", Str(name)>>, <<"arguments", Dict(args)>>>>)

Multiply == <<<<"operation", Str("multiply")>>, <<"a", Num(15)>>,
              <<"b", Num(7)>>>>
MultiplyReordered == <<<<"b", Num(7)>>, <<"operation", Str("multiply")>>,
                       <<"a", Num(15)>>>>
DivideByZero == <<<<"operation", Str("divide")>>, <<"a", Num(1)>>,
                  <<"b", Num(0)>>>>

Responses == <<
    <<W, W>>,
    <<Lit(None)>>,
    <<LK, Lit(Num(1)), RK>>,
    <<Lit(Num(7))>>,
    <<W>> \o Record(<<<<"done", Bool(TRUE)>>, <<"answer", Str("wrapped")>>>>)
          \o <<W>>,
    Record(<<<<"done", Bool(TRUE)>>, <<"answer", Str("105")>>>>),
    Record(<<<<"done", Num(1)>>>>),
    Record(<<<<"tool", Str("calculator")>>, <<"refuse", Bool(TRUE)>>,
             <<"done", Str("no")>>, <<"answer", Num(105)>>>>),
    Record(<<<<"refuse", Bool(TRUE)>>, <<"reason", Str("out of scope")>>>>),
    Record(<<<<"tool", Str("calculator")>>, <<"arguments", Dict(Multiply)>>,
             <<"done", Bool(FALSE)>>, <<"refuse", Num(1)>>>>),
    <<LB, RB>>,
    Record(<<<<"done", Bool(FALSE)>>, <<"tool", Str("")>>>>),
    Call("calculator", Multiply),
    Call("calculator", MultiplyReordered),
    Call("calculator", DivideByZero),
    Record(<<<<"tool", Str("no_such_tool")>>>>),
    Record(<<<<"tool", List(<<Str("calculator")>>)>>>>),
    Call("calculator", <<<<"operation", Str("add")>>, <<"bogus", Num(1)>>>>),
    Call("web_fetch", <<<<"url", Url(<<"https://", "www.", "python.org",
                                       "/">>)>>>>),
    Call("search_docs", <<<<"query", Str("Python")>>>>)
>>

Questions == {"What is 15 times 7?"}

-----------------------------------------------------------------------------
(* State *)

VARIABLES max_iterations, iteration, prompt, conversation_history,
          last_tool_call, docs, status, answer, trace, script, probe

vars == <<max_iterations, iteration, prompt, conversation_history,
          last_tool_call, docs, status, answer, trace, script, probe>>

\* script: the replies the language model gives, round after round and
\* cyclically; <<>> when it may give any reply and generation may fail
\* probe: the last direct call of a function and what it returned

\* the replies possible in the round after `done` rounds
Choices(s, done) ==
    IF s = <<>> THEN 1..Len(Responses) ELSE {s[(done % Len(s)) + 1]}

\* the numbers of failed requests possible in a round
Failures(s) == IF s = <<>> THEN 0..max_retries ELSE {0}

\* a counter that is incremented twice in a round
increment_twice(i) == i + 2

\* iteration += 1
increment(i) == i + 1

NoProbe == [fn |-> "none"]

\* the locals of run before the first round
Fresh ==
    /\ iteration = 0
    /\ \E q \in Questions : prompt = InitialPrompt(q)
    /\ conversation_history = <<>>
    /\ last_tool_call = None
    /\ docs \in {[exists |-> FALSE, files |-> {}],
                 [exists |-> TRUE, files |-> SampleDocs]}
    /\ status = "running"
    /\ answer = None
    /\ trace = <<>>
    /\ probe = NoProbe

\* the state at the while loop of a fresh run
Init ==
    /\ max_iterations \in 0..MaxIterBound
    /\ script = <<>>
    /\ Fresh

\* status: "running" at the loop test, "returned" after a return inside the
\* loop body, "exhausted" after the return below the loop, "raised" when a
\* fault leaves run

\* one round: the loop test holds, the body runs to its continue or return
Round ==
    /\ status = "running"
    /\ iteration < max_iterations
    /\ \E failures \in Failures(script), i \in Choices(script, iteration) :
         LET r == call_llm(failures, Responses[i])
             o == run_round(prompt, last_tool_call, conversation_history,
                            docs, r)
         IN /\ iteration' = increment(iteration)
            /\ prompt' = o.prompt
            /\ last_tool_call' = o.last
            /\ conversation_history' = o.hist
            /\ docs' = o.docs
            /\ status' = CASE o.ctl = "continue" -> "running"
                           [] o.ctl = "return" -> "returned"
                           [] o.ctl = "raise" -> "raised"
            /\ answer' = o.out
            /\ trace' = Append(trace, [llm |-> r, executed |-> o.executed])
    /\ UNCHANGED <<max_iterations, script, probe>>

\* the loop test fails: the budget message is returned
Exhausted ==
    /\ status = "running"
    /\ iteration >= max_iterations
    /\ status' = "exhausted"
    /\ answer' = BudgetMessage(max_iterations, Len(conversation_history))
    /\ UNCHANGED <<max_iterations, iteration, prompt, conversation_history,
                   last_tool_call, docs, trace, script, probe>>

Next == Round \/ Exhausted

Spec == Init /\ [][Next]_vars

-----------------------------------------------------------------------------
(* Reading the trace: round k is trace[k]; a round that continues appends  *)
(* exactly one segment, so the segment of round k is prompt[k + 1].        *)

Rounds == 1..Len(trace)

Generated(k) == ~trace[k].llm.raised
Parsed(k) == _parse_response(trace[k].llm.v)
IsRecord(k) == Generated(k) /\ Parsed(k).t = "obj"
Key(k, key) == get(Parsed(k), key, None)

SaysDone(k) == IsRecord(k) /\ Truthy(Key(k, "done"))
SaysRefuse(k) ==
    IsRecord(k) /\ ~Truthy(Key(k, "done")) /\ Truthy(Key(k, "refuse"))
SaysTool(k) ==
    /\ IsRecord(k)
    /\ ~Truthy(Key(k, "done"))
    /\ ~Truthy(Key(k, "refuse"))
    /\ Truthy(Key(k, "tool"))

ToolName(k) == Key(k, "tool")
Arguments(k) == get(Parsed(k), "arguments", Dict(<<>>))
\* the arguments as a mapping, whatever the order of the keys
ArgumentSet(k) ==
    IF Arguments(k).t = "obj"
    THEN {Arguments(k).items[i] : i \in 1..Len(Arguments(k).items)}
    ELSE {<<"", Arguments(k)>>}
SameCall(j, k) ==
    ToolName(j) = ToolName(k) /\ ArgumentSet(j) = ArgumentSet(k)

\* round k ended with continue
Continued(k) == k < Len(trace) \/ status \in {"running", "exhausted"}
\* round k was the last one and run returned from inside it
ReturnedIn(k) == k = Len(trace) /\ status = "returned" /\ iteration = k
Segment(k) == prompt[k + 1]
HasSegment(k) == Len(prompt) >= k + 1

RECURSIVE Executions(_)
\* the number of rounds up to k that executed a tool
Executions(k) ==
    IF k = 0 THEN 0
    ELSE Executions(k - 1) + (IF trace[k].executed THEN 1 ELSE 0)

-----------------------------------------------------------------------------
(* Claims *)

\* C1 (as claimed): when no response is classified Done or Refuse and
\* generation never raises, run performs exactly max_iterations rounds and
\* then returns the budget-exhausted message, never earlier.
C1_BudgetAfterExactlyMaxRounds ==
    (\A k \in Rounds : Generated(k) /\ ~SaysDone(k) /\ ~SaysRefuse(k))
    => /\ Len(trace) <= max_iterations
       /\ status \in {"running", "exhausted"}
       /\ status = "exhausted" =>
            /\ Len(trace) = max_iterations
            /\ answer = BudgetMessage(max_iterations,
                                      Len(conversation_history))

\* C2: run never propagates a fault: whatever the response text, the tool
\* name and arguments, and whatever fault generation or a tool raises, run
\* ends by returning an answer.
C2_NeverRaises ==
    /\ status \in {"running", "returned", "exhausted"}
    /\ status = "exhausted" =>
         answer = BudgetMessage(max_iterations, Len(conversation_history))
    /\ status = "returned" =>
         /\ Len(trace) >= 1
         /\ \/ SaysDone(Len(trace))
            \/ SaysRefuse(Len(trace))
            \/ answer.t = "fstr" /\ answer.text = "Error: "

\* C2 witness: a fault raised inside the round (a response that parses to a
\* list) was returned as an error answer.
C2_Witness ==
    /\ status = "returned"
    /\ Len(trace) >= 1
    /\ Generated(Len(trace))
    /\ Parsed(Len(trace)).t = "list"
    /\ answer = ErrorMessage(<<"'", "list", "' object has no attribute 'get'">>)

C4_ClassificationPriority ==
    \A k \in Rounds :
      /\ (IsRecord(k) /\ Truthy(Key(k, "done")))
           => /\ ReturnedIn(k)
              /\ answer = get(Parsed(k), "answer", Str("Task completed."))
              /\ ~trace[k].executed
      /\ (IsRecord(k) /\ ~Truthy(Key(k, "done")) /\ Truthy(Key(k, "refuse")))
           => /\ ReturnedIn(k)
              /\ answer.t = "fstr"
              /\ answer.text = "I cannot complete this task: "
              /\ ~trace[k].executed
      /\ trace[k].executed
           => /\ IsRecord(k)
              /\ ~Truthy(Key(k, "done"))
              /\ ~Truthy(Key(k, "refuse"))
              /\ Truthy(Key(k, "tool"))
      /\ (SaysTool(k) /\ Hashable(ToolName(k)))
           => /\ Continued(k)
              /\ HasSegment(k)
              /\ \/ trace[k].executed /\ Segment(k).tool = ToolName(k)
                 \/ ~trace[k].executed /\ Segment(k) = ForcedSeg

\* C4 witness: a record with truthy 'done', 'refuse' and 'tool' ended the
\* run with its answer.
C4_Witness ==
    /\ status = "returned"
    /\ Len(trace) >= 1
    /\ IsRecord(Len(trace))
    /\ Truthy(Key(Len(trace), "done"))
    /\ Truthy(Key(Len(trace), "refuse"))
    /\ Truthy(Key(Len(trace), "tool"))
    /\ answer = Num(105)

\* C5: when the first k-1 responses are valid, pairwise different tool calls
\* and the k-th is Done, run returns the value of its 'answer' key (or
\* 'Task completed.') after exactly k generation calls and k-1 tool
\* executions, and nothing happens after the Done round.
C5_DoneAfterToolCalls ==
    /\ \A j \in Rounds : SaysDone(j) => j = Len(trace)
    /\ LET k == Len(trace) IN
       (/\ k >= 1
        /\ SaysDone(k)
        /\ \A j \in 1..(k - 1) : SaysTool(j) /\ Hashable(ToolName(j))
        /\ \A i, j \in 1..(k - 1) : i < j => ~SameCall(i, j))
       => /\ status = "returned"
          /\ answer = IF HasKey(Parsed(k), "answer")
                      THEN Key(k, "answer") ELSE Str("Task completed.")
          /\ iteration = k
          /\ k <= max_iterations
          /\ Executions(k) = k - 1
          /\ Len(conversation_history) = k - 1
          /\ ~trace[k].executed

\* C5 witness: the multiplication is called, then done with answer '105':
\* '105' is returned after 2 iterations.
C5_Witness ==
    /\ Len(trace) = 2
    /\ trace[1].llm = Returned(Call("calculator", Multiply))
    /\ SaysDone(2)
    /\ status = "returned"
    /\ answer = Str("105")
    /\ iteration = 2
    /\ Len(conversation_history) = 1
    /\ conversation_history[1].result.success
    /\ conversation_history[1].result.result = Num(105)

\* C6: a round classified Refuse ends the run in that round with
\* 'I cannot complete this task: <reason>' (reason defaults to 'Tool not
\* appropriate'); a Refuse on iteration 1 ends the run after 1 generation
\* call and 0 tool executions.
C6_RefuseTerminates ==
    \A k \in Rounds :
      SaysRefuse(k)
      => /\ ReturnedIn(k)
         /\ answer = RefuseMessage(IF HasKey(Parsed(k), "reason")
                                   THEN Key(k, "reason")
                                   ELSE Str("Tool not appropriate"))
         /\ ~trace[k].executed
         /\ Len(conversation_history) = Executions(k - 1)
         /\ k = 1 => conversation_history = <<>>

\* C6 witness: refused with reason 'out of scope' on iteration 1.
C6_Witness ==
    /\ Len(trace) = 1
    /\ SaysRefuse(1)
    /\ status = "returned"
    /\ iteration = 1
    /\ answer = RefuseMessage(Str("out of scope"))

\* C7: when the generation call raises in round k, the run ends in round k
\* with 'Error: <fault message>'; no tool is executed in that round, no
\* further generation call is made and the remaining budget is not used.
C7_GenerationFaultEndsRun ==
    \A k \in Rounds :
      trace[k].llm.raised
      => /\ ReturnedIn(k)
         /\ answer = ErrorMessage(trace[k].llm.msg)
         /\ ~trace[k].executed
         /\ Len(conversation_history) = Executions(k - 1)

\* C7 witness: generation failed in round 2 of 3, after a tool call.
C7_Witness ==
    /\ Len(trace) = 2
    /\ trace[1].executed
    /\ trace[2].llm.raised
    /\ max_iterations = 3
    /\ status = "returned"
    /\ answer.text = "Error: "

\* C8 (as claimed): when generation succeeds, a response that yields no
\* structured record (non-JSON text, or JSON that is not an object) is
\* answered with a corrective instruction and a new round; the content of a
\* response never ends the run with an error answer.
C8_ResponseContentNeverAnError ==
    /\ \A k \in Rounds :
         (Generated(k) /\ Parsed(k).t # "obj")
         => /\ Continued(k)
            /\ HasSegment(k)
            /\ Segment(k) \in {JsonErrorSeg, NoToolSeg}
    /\ (status = "returned" /\ \A k \in Rounds : Generated(k))
         => SaysDone(Len(trace)) \/ SaysRefuse(Len(trace))

\* C9: a Malformed round (the parse returns None) executes no tool, adds no
\* record to the history, appends exactly the JSON corrective instruction,
\* consumes one iteration and leaves the stored fingerprint unchanged.
C9_MalformedRound ==
    [][(/\ Len(trace') = Len(trace) + 1
        /\ ~trace'[Len(trace')].llm.raised
        /\ _parse_response(trace'[Len(trace')].llm.v) = None)
       => /\ ~trace'[Len(trace')].executed
          /\ conversation_history' = conversation_history
          /\ prompt' = Append(prompt, JsonErrorSeg)
          /\ iteration' = iteration + 1
          /\ last_tool_call' = last_tool_call
          /\ docs' = docs
          /\ status' = "running"]_vars

\* C9 witness: a Malformed round right after an executed tool call; the
\* fingerprint of that call is still stored.
C9_Witness ==
    /\ Len(trace) = 2
    /\ trace[1].executed
    /\ Generated(2) /\ Parsed(2) = None
    /\ last_tool_call = Tuple2(ToolName(1), json_dumps(Arguments(1), TRUE))
    /\ Len(prompt) = 3 /\ prompt[3] = JsonErrorSeg
    /\ Len(conversation_history) = 1

\* C10: a tool result never ends the run: the executed call is recorded in
\* the history and its transcript is appended, with the 'explain the error'
\* instruction when success is false and the 'fully answered' instruction
\* when it is true; the round of an executed tool returns no answer.
C10_ToolFailureContinues ==
    \A k \in Rounds :
      trace[k].executed
      => LET n == Executions(k) IN
         /\ Continued(k)
         /\ k = Len(trace) /\ iteration < max_iterations => status = "running"
         /\ Len(conversation_history) >= n
         /\ HasSegment(k)
         /\ conversation_history[n].tool = ToolName(k)
         /\ conversation_history[n].arguments = Arguments(k)
         /\ ToolName(k) \notin {Str(name) : name \in TOOLS}
              => ~conversation_history[n].result.success
         /\ Segment(k).tool = ToolName(k)
         /\ Segment(k).arguments = Arguments(k)
         /\ Segment(k).result = conversation_history[n].result
         /\ Segment(k).seg =
              IF conversation_history[n].result.success
              THEN "Now decide: Is the user's question fully answered?"
              ELSE "The tool returned an error. Respond with: done"

\* C10 witness: the call of an unknown tool failed in round 1, was recorded,
\* and round 2 executed another tool.
C10_Witness ==
    /\ Len(trace) >= 2
    /\ trace[1].executed
    /\ ToolName(1) = Str("no_such_tool")
    /\ ~conversation_history[1].result.success
    /\ prompt[2].seg = "The tool returned an error. Respond with: done"
    /\ trace[2].executed
    /\ conversation_history[2].result.success

-----------------------------------------------------------------------------
(* Direct calls of the tool registry *)

\* Largest absolute value of the numbers given to the calculator.
MaxNum == 2

ToolNames == <<Str("calculator"), Str("search_docs"), Str("web_fetch"),
               Str("no_such_tool"), Str(""), Num(5), None,
               List(<<Str("calculator")>>), Dict(<<>>)>>

Operations == {Str("add"), Str("subtract"), Str("multiply"), Str("divide"),
               Str("power"), None}
Operands == {Num(n) : n \in (0 - MaxNum)..MaxNum} \cup {Str("x")}

CalculatorArguments ==
    {Dict(<<<<"operation", op>>, <<"a", a>>, <<"b", b>>>>) :
       op \in Operations, a \in Operands, b \in Operands}
    \cup {Dict(<<<<"operation", Str("add")>>>>),
          Dict(<<<<"operation", Str("add")>>, <<"a", Num(1)>>, <<"b", Num(2)>>,
                 <<"bogus", Num(3)>>>>)}

Queries == {Str("Python"), Str("web"), Str("zzz"), Num(5)}
MaxResults == {Num(1), Num(0), Num(0 - 1), Num(3), Str("x")}

SearchArguments ==
    {Dict(<<<<"query", q>>>>) : q \in Queries}
    \cup {Dict(<<<<"query", q>>, <<"max_results", m>>>>) :
            q \in Queries, m \in MaxResults}

Urls == {Url(<<"python.org">>),
         Url(<<"https://", "www.", "python.org", "/">>),
         Url(<<"http://", "example.com">>),
         Url(<<"github.com", "/", "about">>),
         Url(<<"invalid-url.xyz">>),
         Num(5)}
Extracts == {Str("title"), Str("summary"), Str("content"), Str("invalid"),
             None}

FetchArguments ==
    {Dict(<<<<"url", u>>>>) : u \in Urls}
    \cup {Dict(<<<<"url", u>>, <<"extract", x>>>>) : u \in Urls, x \in Extracts}

DocsDirs == {[exists |-> FALSE, files |-> {}],
             [exists |-> TRUE, files |-> SampleDocs]}

InitTools ==
    /\ max_iterations = 0
    /\ script = <<>>
    /\ Fresh

Called(fn, name, arguments, out) ==
    [fn |-> fn, name |-> name, arguments |-> arguments, out |-> out]

\* a direct call touches no local of run
Inert ==
    /\ UNCHANGED <<max_iterations, iteration, prompt, conversation_history,
                   last_tool_call, status, answer, trace, script>>

\* execute_tool(name, arguments) for a name and arguments of any type
ExecuteTool ==
    /\ probe = NoProbe
    /\ \E i \in 1..Len(ToolNames) :
         \E arguments \in CalculatorArguments \cup SearchArguments
                          \cup FetchArguments
                          \cup {Dict(<<>>), List(<<>>), None} :
           LET out == execute_tool(ToolNames[i], arguments, docs) IN
           /\ probe' = Called("execute_tool", ToolNames[i], arguments, out)
           /\ docs' = IF out.raised THEN docs ELSE out.v.docs
    /\ Inert

\* calculator(operation, a, b)
Calculator ==
    /\ probe = NoProbe
    /\ \E operation \in Operations, a \in Operands, b \in Operands :
         probe' = Called("calculator", Str("calculator"),
                         Dict(<<<<"operation", operation>>, <<"a", a>>,
                                <<"b", b>>>>),
                         Returned([result |-> calculator(operation, a, b),
                                   docs |-> docs]))
    /\ UNCHANGED docs
    /\ Inert

\* search_docs(query, max_results)
SearchDocs ==
    /\ probe = NoProbe
    /\ \E query \in Queries, max \in MaxResults :
         probe' = Called("search_docs", Str("search_docs"),
                         Dict(<<<<"query", query>>, <<"max_results", max>>>>),
                         Returned([result |-> search_docs(query, max, docs),
                                   docs |-> ensure_docs(docs)]))
    /\ docs' = ensure_docs(docs)
    /\ Inert

\* web_fetch(url, extract)
WebFetch ==
    /\ probe = NoProbe
    /\ \E url \in Urls, extract \in Extracts :
         probe' = Called("web_fetch", Str("web_fetch"),
                         Dict(<<<<"url", url>>, <<"extract", extract>>>>),
                         Returned([result |-> web_fetch(url, extract),
                                   docs |-> docs]))
    /\ UNCHANGED docs
    /\ Inert

NextTools == ExecuteTool \/ Calculator \/ SearchDocs \/ WebFetch

SpecTools == InitTools /\ [][NextTools]_vars

\* the message contains the fragment
Contains(msg, fragment) == \E i \in 1..Len(msg) : msg[i] = fragment
\* msg.lower() contains the fragment
ContainsLower(msg, fragment) ==
    \E i \in 1..Len(msg) : lower(msg[i]) = fragment

Registered(name) == name \in {Str(n) : n \in TOOLS}

\* C11 (as claimed): execute_tool never raises and always returns a Tool
\* Result: success=false with 'not found' for a name absent from the
\* registry, success=false with 'Invalid arguments' for missing or unexpected
\* argument keys.
C11_ExecuteToolNeverRaises ==
    probe.fn = "execute_tool"
    => /\ ~probe.out.raised
       /\ probe.out.v.result.success \in BOOLEAN
       /\ ~Registered(probe.name)
            => /\ ~probe.out.v.result.success
               /\ Contains(probe.out.v.result.error, "not found")
       /\ (/\ Registered(probe.name)
           /\ probe.arguments.t = "obj"
           /\ \/ ~(KeysOf(probe.arguments) \subseteq Params(probe.name.s))
              \/ ~(Required(probe.name.s) \subseteq KeysOf(probe.arguments)))
            => /\ ~probe.out.v.result.success
               /\ Contains(probe.out.v.result.error, "Invalid arguments")

\* C12: for bounded integers a, b, execute_tool('calculator', {operation, a,
\* b}) returns success with a+b, a-b, a*b or a/b; divide with b = 0 returns
\* success=false with an error containing 'divide by zero'; any other
\* operation returns success=false.
C12_CalculatorArithmetic ==
    (/\ probe.fn = "execute_tool"
     /\ probe.name = Str("calculator")
     /\ probe.arguments.t = "obj"
     /\ KeysOf(probe.arguments) = {"operation", "a", "b"}
     /\ get(probe.arguments, "a", None).t = "num"
     /\ get(probe.arguments, "b", None).t = "num")
    => /\ ~probe.out.raised
       /\ LET r == probe.out.v.result
              op == get(probe.arguments, "operation", None)
              a == get(probe.arguments, "a", None).n
              b == get(probe.arguments, "b", None).n
          IN CASE op = Str("add") -> r.success /\ r.result = Num(a + b)
               [] op = Str("subtract") -> r.success /\ r.result = Num(a - b)
               [] op = Str("multiply") -> r.success /\ r.result = Num(a * b)
               [] op = Str("divide") /\ b # 0 ->
                    /\ r.success
                    /\ r.result.t = "quot"
                    /\ r.result.den # 0
                    /\ r.result.num * b = a * r.result.den
               [] op = Str("divide") /\ b = 0 ->
                    ~r.success /\ ContainsLower(r.error, "divide by zero")
               [] OTHER -> ~r.success

\* C12 witness: 1 / 0 was asked of the calculator and refused.
C12_Witness ==
    /\ probe.fn = "execute_tool"
    /\ probe.name = Str("calculator")
    /\ probe.arguments = Dict(<<<<"operation", Str("divide")>>,
                                <<"a", Num(1)>>, <<"b", Num(0)>>>>)
    /\ ~probe.out.raised
    /\ probe.out.v.result = Failure(<<"Cannot ", "divide by zero">>)

-----------------------------------------------------------------------------
(* Direct calls of the response parser *)

\* Largest number of tokens of the prose before and after the object.
MaxProse == 2

ProseTokens == {W, LB, RB, LK, RK}
Prose == UNION {[1..n -> ProseTokens] : n \in 0..MaxProse}

\* the JSON objects a response can carry
Objects == <<Record(<<<<"done", Bool(TRUE)>>, <<"answer", Str("105")>>>>),
             Record(<<<<"refuse", Bool(TRUE)>>,
                      <<"reason", Str("out of scope")>>>>),
             Call("calculator", Multiply),
             <<LB, RB>>>>

\* _parse_response(prefix + J + suffix), next to _parse_response(J)
ParseResponse ==
    /\ probe = NoProbe
    /\ \E prefix \in Prose, suffix \in Prose, j \in 1..Len(Objects) :
         probe' = [fn |-> "_parse_response",
                   prefix |-> prefix, J |-> Objects[j], suffix |-> suffix,
                   out |-> _parse_response(prefix \o Objects[j] \o suffix),
                   bare |-> _parse_response(Objects[j])]
    /\ UNCHANGED docs
    /\ Inert

NextParse == ParseResponse

SpecParse == InitTools /\ [][NextParse]_vars

\* C13 (as claimed): for every JSON object J and all leading and trailing
\* prose, _parse_response(prefix + J + suffix) yields the record of
\* _parse_response(J), hence the same classification.
C13_ProseWrappingIsIgnored ==
    probe.fn = "_parse_response"
    => /\ probe.bare.t = "obj"
       /\ probe.out = probe.bare

-----------------------------------------------------------------------------
(* Claims about the counters and the prompt of a run *)

\* C14: the count of the budget message is the number of rounds that
\* executed a tool: Malformed, no-tool-name and suppressed rounds are not
\* counted, the count lies between 0 and max_iterations and is the length of
\* the tool-call history.
C14_BudgetCountsExecutions ==
    /\ \A k \in Rounds :
         trace[k].executed
         => /\ SaysTool(k)
            /\ HasSegment(k)
            /\ Segment(k).seg \notin {JsonErrorSeg.seg, NoToolSeg.seg,
                                      ForcedSeg.seg}
    /\ Len(conversation_history) = Executions(Len(trace))
    /\ status = "exhausted"
         => /\ answer.t = "fstr"
            /\ answer.text = "Could not complete task within"
            /\ answer.max = max_iterations
            /\ answer.calls = Executions(Len(trace))
            /\ answer.calls = Len(conversation_history)
            /\ answer.calls \in 0..max_iterations

\* C14 witness: a budget of 3 was used up by a Malformed round, an executed
\* call and its suppressed repetition: 1 tool call is reported.
C14_Witness ==
    /\ status = "exhausted"
    /\ max_iterations = 3
    /\ Len(trace) = 3
    /\ Generated(1) /\ Parsed(1) = None
    /\ trace[2].executed
    /\ SaysTool(3) /\ ~trace[3].executed
    /\ answer.calls = 1

-----------------------------------------------------------------------------
(* Claims about the Tool Results *)

\* the Tool Result of the direct call
ToolResult == probe.out.v.result

\* C15: every Tool Result returned by execute_tool, calculator, search_docs
\* or web_fetch has a boolean 'success'; it has an 'error' key exactly when
\* success is false, and the error is then a string.
C15_SuccessXorError ==
    (/\ probe.fn \in {"execute_tool", "calculator", "search_docs",
                      "web_fetch"}
     /\ ~probe.out.raised)
    => /\ "success" \in DOMAIN ToolResult
       /\ ToolResult.success \in BOOLEAN
       /\ ("error" \in DOMAIN ToolResult) <=> ~ToolResult.success
       /\ ~ToolResult.success
            => /\ ToolResult.error \in Seq(STRING)
               /\ ToolResult.error # <<>>

\* C15 witness: a search without a match succeeded with an empty result
\* list and a message, and no 'error' key.
C15_Witness ==
    /\ probe.fn = "search_docs"
    /\ probe.arguments = Dict(<<<<"query", Str("zzz")>>,
                                <<"max_results", Num(3)>>>>)
    /\ ToolResult.success
    /\ ToolResult.results = <<>>
    /\ DOMAIN ToolResult = {"success", "results", "message"}

-----------------------------------------------------------------------------
(* Claims about the rounds without an execution *)

\* the record parsed in the round that the step adds to the trace
NewRecord == _parse_response(trace'[Len(trace')].llm.v)

\* C16: a round whose record has no truthy 'done', no truthy 'refuse' and no
\* non-empty 'tool' executes no tool, adds nothing to the history, appends
\* the 'You must specify a tool name' instruction, leaves the stored
\* fingerprint unchanged and continues with the next round.
C16_NoToolNameRound ==
    [][(/\ Len(trace') = Len(trace) + 1
        /\ ~trace'[Len(trace')].llm.raised
        /\ NewRecord.t = "obj"
        /\ ~Truthy(get(NewRecord, "done", None))
        /\ ~Truthy(get(NewRecord, "refuse", None))
        /\ ~Truthy(get(NewRecord, "tool", None)))
       => /\ ~trace'[Len(trace')].executed
          /\ conversation_history' = conversation_history
          /\ prompt' = Append(prompt, NoToolSeg)
          /\ iteration' = iteration + 1
          /\ last_tool_call' = last_tool_call
          /\ docs' = docs
          /\ status' = "running"
          /\ answer' = None]_vars

\* C16 witness: a record with an empty tool name right after an executed
\* call; the fingerprint of that call is still stored.
C16_Witness ==
    /\ Len(trace) = 2
    /\ trace[1].executed
    /\ IsRecord(2)
    /\ HasKey(Parsed(2), "tool") /\ Key(2, "tool") = Str("")
    /\ ~trace[2].executed
    /\ last_tool_call = Tuple2(ToolName(1), json_dumps(Arguments(1), TRUE))
    /\ Len(prompt) = 3 /\ prompt[3] = NoToolSeg
    /\ Len(conversation_history) = 1
    /\ status = "running"

-----------------------------------------------------------------------------
(* Runs against a model that repeats a fixed cycle of responses *)

\* Largest max_iterations of a run against a cyclic model.
MaxScriptIter == 5

\* the cycles: one response for ever, or two responses in turn
Scripts == {<<i>> : i \in 1..Len(Responses)}
           \cup {<<i, j>> : i \in 1..Len(Responses), j \in 1..Len(Responses)}

InitScripted ==
    /\ max_iterations \in 0..MaxScriptIter
    /\ script \in Scripts
    /\ Fresh

SpecScripted == InitScripted /\ [][Next]_vars

\* round k was suppressed as a repetition of the previous call
Skipped(k) ==
    ~trace[k].executed /\ HasSegment(k) /\ Segment(k) = ForcedSeg
Skips == Cardinality({k \in Rounds : Skipped(k)})

\* the model emits the identical tool call in every round
SameCallEveryRound ==
    /\ Len(script) = 1
    /\ \A k \in Rounds : SaysTool(k)

\* C17 (as claimed): in a run where the model emits the identical tool call
\* in every round, at most one round of the whole run is skipped.
C17_AtMostOneSkip == SameCallEveryRound => Skips <= 1

\* C17 (amended): in such a run a skipped round always follows a round that
\* executed the call and is followed by a round that executes it again, so
\* n rounds skip at most n \div 2 of them, and exactly n \div 2 (the even
\* rounds) when the tool name is a string.
C17_EverySecondRoundSkipped ==
    SameCallEveryRound
    => /\ \A k \in Rounds :
            Skipped(k)
            => /\ k >= 2 /\ trace[k - 1].executed
               /\ k + 1 <= Len(trace) => trace[k + 1].executed
       /\ Skips <= Len(trace) \div 2
       /\ (Len(trace) >= 1 /\ ToolName(1).t = "str")
            => /\ \A k \in Rounds : Skipped(k) <=> k % 2 = 0
               /\ \A k \in Rounds : trace[k].executed <=> k % 2 = 1
               /\ Skips = Len(trace) \div 2

\* C17 witness: five rounds of the same multiplication: executed, skipped,
\* executed, skipped, executed.
C17_Witness ==
    /\ script = <<13>>
    /\ Len(trace) = 5
    /\ status = "exhausted"
    /\ SameCallEveryRound
    /\ Skips = 2
    /\ Len(conversation_history) = 3

\* the record of the i-th response of the cycle, and its fingerprint
ScriptRecord(i) == _parse_response(Responses[script[i]])
IsToolCall(parsed) == parsed.t = "obj" /\ classify(parsed) = "tool"
FingerprintOf(parsed) ==
    fingerprint(get(parsed, "tool", None),
                get(parsed, "arguments", Dict(<<>>)))

\* the model alternates between two tool calls with different fingerprints
Alternating ==
    /\ Len(script) = 2
    /\ IsToolCall(ScriptRecord(1))
    /\ IsToolCall(ScriptRecord(2))
    /\ FingerprintOf(ScriptRecord(1)) # FingerprintOf(ScriptRecord(2))

\* C18 (as claimed): when the model alternates between two tool calls with
\* different fingerprints, every round executes its tool, no forced-completion
\* instruction is injected, and the run ends only by the iteration budget,
\* after exactly max_iterations rounds with max_iterations tool calls.
C18_AlternationRunsToTheBudget ==
    Alternating
    => /\ \A k \in Rounds :
            /\ trace[k].executed
            /\ HasSegment(k)
            /\ Segment(k).seg # ForcedSeg.seg
       /\ status \in {"running", "exhausted"}
       /\ Len(conversation_history) = Len(trace)
       /\ status = "exhausted"
            => /\ Len(trace) = max_iterations
               /\ answer.text = "Could not complete task within"
               /\ answer.calls = max_iterations

\* C19: in every state of a run 0 <= iteration <= max_iterations; the
\* counter starts at 0, grows by exactly 1 in every round (Malformed,
\* no-tool-name and suppressed rounds included) and never decreases; the
\* number of generation calls equals the counter and the number of tool
\* executions never exceeds it.
C19_IterationCounter ==
    /\ [](/\ 0 <= iteration /\ iteration <= max_iterations
          /\ Len(trace) = iteration
          /\ Executions(Len(trace)) <= iteration
          /\ Len(conversation_history) <= iteration
          /\ Len(trace) = 0 => iteration = 0)
    /\ [][/\ iteration' >= iteration
          /\ iteration' # iteration => iteration' = iteration + 1
          /\ Len(trace') = Len(trace) + 1 => iteration' = iteration + 1
          /\ Len(prompt') # Len(prompt) => iteration' = iteration + 1]_vars

\* C19 witness: a budget of 3 used by a round without a tool name, an
\* executed call and a Malformed round: 3 generation calls, 1 execution.
C19_Witness ==
    /\ max_iterations = 3
    /\ iteration = 3
    /\ status = "running"
    /\ IsRecord(1) /\ ~SaysTool(1) /\ Segment(1) = NoToolSeg
    /\ trace[2].executed
    /\ Generated(3) /\ Parsed(3) = None
    /\ Executions(3) = 1

\* the instructions that end an appended segment
SegmentKinds ==
    {JsonErrorSeg.seg, NoToolSeg.seg, ForcedSeg.seg,
     "Now decide: Is the user's question fully answered?",
     "The tool returned an error. Respond with: done"}

\* C20: the prompt is append-only: a round that continues appends exactly
\* one segment (corrective instruction, forced-completion instruction or tool
\* transcript) to the prompt of the round before, which stays a strict
\* prefix; a round that ends the run appends nothing; the initial prompt
\* with the tool catalog and the question is never rewritten or truncated.
C20_PromptAppendOnly ==
    /\ [](/\ Len(prompt) >= 1
          /\ prompt[1].seg = "initial"
          /\ prompt[1].tools = TOOLS
          /\ prompt[1].question \in Questions
          /\ \A k \in 2..Len(prompt) : prompt[k].seg \in SegmentKinds)
    /\ [][/\ Len(prompt') >= Len(prompt)
          /\ SubSeq(prompt', 1, Len(prompt)) = prompt
          /\ (Len(trace') = Len(trace) + 1 /\ status' = "running")
               => /\ Len(prompt') = Len(prompt) + 1
                  /\ prompt'[Len(prompt')].seg \in SegmentKinds
          /\ (Len(trace') = Len(trace) + 1 /\ status' # "running")
               => prompt' = prompt
          /\ Len(trace') = Len(trace) => prompt' = prompt]_vars

\* C20 witness: the initial prompt followed by a JSON corrective
\* instruction, a tool transcript and a forced-completion instruction.
C20_Witness ==
    /\ Len(prompt) = 4
    /\ prompt[1].seg = "initial"
    /\ prompt[2] = JsonErrorSeg
    /\ prompt[3].seg = "Now decide: Is the user's question fully answered?"
    /\ prompt[3].tool = Str("calculator")
    /\ prompt[4] = ForcedSeg
    /\ status = "running"

-----------------------------------------------------------------------------
(* Claims about the order of the events of a run *)

\* C21: generate, parse and at most one execution per round, in this order:
\* a tool is executed only in a round whose generation call returned and
\* whose response is a tool call with a non-empty name and a fingerprint
\* other than the stored one; a round records at most one execution; and
\* when the generation call of the next round is issued, the prompt holds
\* the segment of every earlier round, the result of an executed tool
\* included.
C21_GenerateParseExecute ==
    [][Len(trace') = Len(trace) + 1
       => /\ trace'[Len(trace')].executed
               => /\ ~trace'[Len(trace')].llm.raised
                  /\ NewRecord.t = "obj"
                  /\ classify(NewRecord) = "tool"
                  /\ Truthy(get(NewRecord, "tool", None))
                  /\ FingerprintOf(NewRecord) # last_tool_call
                  /\ last_tool_call' = FingerprintOf(NewRecord)
          /\ trace'[Len(trace')].executed
               <=> Len(conversation_history') = Len(conversation_history) + 1
          /\ ~trace'[Len(trace')].executed
               => conversation_history' = conversation_history
          /\ Len(prompt) = Len(trace) + 1
          /\ \A k \in Rounds :
               trace[k].executed
               => /\ Executions(k) <= Len(conversation_history)
                  /\ Segment(k).tool = conversation_history[Executions(k)].tool
                  /\ Segment(k).result =
                       conversation_history[Executions(k)].result]_vars

\* C21 witness: the third generation call was issued after a multiplication
\* and a search had been executed, with both results in the prompt.
C21_Witness ==
    /\ Len(trace) = 3
    /\ trace[1].executed /\ trace[2].executed
    /\ ToolName(1) = Str("calculator") /\ ToolName(2) = Str("search_docs")
    /\ Len(prompt) >= 3
    /\ prompt[2].result = conversation_history[1].result
    /\ prompt[3].result = conversation_history[2].result
    /\ prompt[3].result.success /\ prompt[3].result.count = 2
    /\ Len(conversation_history) = 2

-----------------------------------------------------------------------------
(* Claims about the repetition memory *)

\* the loop goes on, or has ended at its test
AtRoundBoundary == status \in {"running", "exhausted"}

\* the fingerprint of the n-th entry of the history, and the round that
\* wrote it
HistoryFingerprint(n) ==
    fingerprint(conversation_history[n].tool,
                conversation_history[n].arguments)
RoundOf(n) == CHOOSE k \in Rounds : trace[k].executed /\ Executions(k) = n

\* a round was suppressed after the latest execution
SkippedSinceLastExecution ==
    \E k \in Rounds :
      Skipped(k) /\ \A j \in (k + 1)..Len(trace) : ~trace[j].executed

\* C22: at every round boundary the stored fingerprint is empty or the
\* fingerprint of the latest history entry; it is empty exactly before the
\* first execution and from a suppressed round to the next execution.  Two
\* adjacent history entries have the same fingerprint only with a suppressed
\* round between their executions, and of two successive tool-call rounds
\* with the same call, whatever Malformed or no-tool-name rounds lie between
\* them, at most one executes.
C22_RepetitionMemory ==
    /\ AtRoundBoundary
         => /\ last_tool_call # None
                 => /\ conversation_history # <<>>
                    /\ last_tool_call =
                         HistoryFingerprint(Len(conversation_history))
            /\ last_tool_call = None
                 <=> (conversation_history = <<>> \/ SkippedSinceLastExecution)
    /\ \A n \in 1..(Len(conversation_history) - 1) :
         HistoryFingerprint(n) = HistoryFingerprint(n + 1)
         => \E k \in (RoundOf(n) + 1)..(RoundOf(n + 1) - 1) : Skipped(k)
    /\ \A k \in Rounds : \A j \in (k + 1)..Len(trace) :
         (/\ SaysTool(k) /\ SaysTool(j)
          /\ \A m \in (k + 1)..(j - 1) : ~SaysTool(m)
          /\ FingerprintOf(Parsed(k)) = FingerprintOf(Parsed(j)))
         => ~(trace[k].executed /\ trace[j].executed)

\* C22 witness: the model alternates a multiplication and prose: the call
\* was executed, suppressed two rounds later with a Malformed round between,
\* and executed again in round 5: two adjacent history entries with one
\* fingerprint, which is the stored one.
C22_Witness ==
    /\ Len(trace) = 5
    /\ trace[1].executed
    /\ Generated(2) /\ Parsed(2) = None
    /\ Skipped(3)
    /\ Generated(4) /\ Parsed(4) = None
    /\ trace[5].executed
    /\ Len(conversation_history) = 2
    /\ HistoryFingerprint(1) = HistoryFingerprint(2)
    /\ last_tool_call = HistoryFingerprint(2)
    /\ AtRoundBoundary

-----------------------------------------------------------------------------
(* The retry loop of the generation client (llm.py), request by request *)

\* Largest max_retries given to call_llm.
MaxRetries == 4

RECURSIVE wait_time(_)
\* wait_time = 2 ** attempt
wait_time(attempt) == IF attempt = 0 THEN 1 ELSE 2 * wait_time(attempt - 1)

\* a loop that also sleeps after the last attempt
should_retry_once_more(attempt, n) == attempt < n

\* if attempt < max_retries - 1
should_retry(attempt, n) == attempt < n - 1

GenerationFailed(n) ==
    Raised("Exception", [text |-> "LLM call failed after", attempts |-> n])

\* call_llm(prompt, max_retries = n) is entered; range(0) runs no attempt
\* and the function returns ""
CallLlm ==
    /\ probe = NoProbe
    /\ \E n \in 0..MaxRetries :
         probe' = [fn |-> "call_llm", max_retries |-> n, attempt |-> 0,
                   requests |-> 0, failures |-> 0, slept |-> <<>>,
                   pc |-> IF n = 0 THEN "done" ELSE "post",
                   out |-> Returned(<<>>)]
    /\ UNCHANGED docs
    /\ Inert

\* the request is answered with a body that holds the response text
PostAnswers ==
    /\ probe.fn = "call_llm"
    /\ probe.pc = "post"
    /\ \E i \in 1..Len(Responses) :
         probe' = [probe EXCEPT !.requests = @ + 1, !.pc = "done",
                                !.out = Returned(Responses[i])]
    /\ UNCHANGED docs
    /\ Inert

\* the request is answered with a body without the 'response' key
PostAnswersWithoutText ==
    /\ probe.fn = "call_llm"
    /\ probe.pc = "post"
    /\ probe' = [probe EXCEPT !.requests = @ + 1, !.pc = "done",
                              !.out = Raised("KeyError", <<"'response'">>)]
    /\ UNCHANGED docs
    /\ Inert

\* the request fails with a RequestException: sleep and go to the next
\* attempt of the for loop, or raise the terminal fault
PostFails ==
    /\ probe.fn = "call_llm"
    /\ probe.pc = "post"
    /\ probe' =
         IF should_retry(probe.attempt, probe.max_retries)
         THEN [probe EXCEPT
                 !.requests = @ + 1, !.failures = @ + 1,
                 !.slept = Append(@, wait_time(probe.attempt)),
                 !.attempt = @ + 1,
                 !.pc = IF probe.attempt + 1 < probe.max_retries
                        THEN "post" ELSE "done"]
         ELSE [probe EXCEPT
                 !.requests = @ + 1, !.failures = @ + 1, !.pc = "done",
                 !.out = GenerationFailed(probe.max_retries)]
    /\ UNCHANGED docs
    /\ Inert

NextLlm == CallLlm \/ PostAnswers \/ PostAnswersWithoutText \/ PostFails

SpecLlm == InitTools /\ [][NextLlm]_vars

\* C23: call_llm with max_retries = n >= 1 issues at most n requests; it
\* returns the text of the first answered request without a further request;
\* after the failure of attempt i < n - 1 it waits 2^i seconds and retries;
\* after the n-th failure it raises 'LLM call failed after n attempts'
\* without another sleep, never returns normally and never issues another
\* request.
C23_RetryLoop ==
    /\ [](probe.fn = "call_llm" /\ probe.max_retries >= 1
          => /\ probe.requests <= probe.max_retries
             /\ probe.failures <= probe.requests
             /\ Len(probe.slept) <= probe.max_retries - 1
             /\ \A i \in 1..Len(probe.slept) :
                  probe.slept[i] = 2 ^ (i - 1)
             /\ probe.pc = "post"
                  => /\ probe.failures = probe.requests
                     /\ probe.failures < probe.max_retries
                     /\ Len(probe.slept) = probe.failures
             /\ (probe.pc = "done" /\ ~probe.out.raised)
                  => /\ probe.failures < probe.max_retries
                     /\ probe.requests = probe.failures + 1
                     /\ Len(probe.slept) = probe.failures
                     /\ probe.out.v \in {Responses[i] : i \in 1..Len(Responses)}
             /\ probe.failures = probe.max_retries
                  => /\ probe.pc = "done"
                     /\ probe.out = GenerationFailed(probe.max_retries)
                     /\ probe.requests = probe.max_retries
                     /\ Len(probe.slept) = probe.max_retries - 1)
    /\ [][(probe.fn = "call_llm" /\ probe.pc = "done")
          => probe' = probe]_vars

\* C23 witness: max_retries = 3 and three failed requests: two sleeps of 1
\* and 2 seconds, then the terminal fault.
C23_Witness ==
    /\ probe.fn = "call_llm"
    /\ probe.max_retries = 3
    /\ probe.requests = 3
    /\ probe.failures = 3
    /\ probe.slept = <<1, 2>>
    /\ probe.pc = "done"
    /\ probe.out = GenerationFailed(3)

-----------------------------------------------------------------------------
(* Two runs whose search_docs calls interleave on the docs directory *)

Procs == {1, 2}

\* the order in which _create_sample_docs writes the corpus
SampleDocsOrder == <<"python_intro.txt", "machine_learning.txt",
                     "web_development.txt">>

ConcurrentQueries == {Str("Python"), Str("web"), Str("learning")}

\* both runs have reached their call of search_docs(query)
StartSearches ==
    /\ probe = NoProbe
    /\ \E q1 \in ConcurrentQueries, q2 \in ConcurrentQueries :
         probe' = [fn |-> "concurrent", before |-> docs,
                   procs |-> [p \in Procs |->
                                [pc |-> "exists",
                                 query |-> IF p = 1 THEN q1 ELSE q2,
                                 todo |-> <<>>,
                                 result |-> None]]]
    /\ UNCHANGED docs
    /\ Inert

At(p, pc) == probe.fn = "concurrent" /\ probe.procs[p].pc = pc

\* if not os.path.exists(docs_dir)
PathExists(p) ==
    /\ At(p, "exists")
    /\ probe' = [probe EXCEPT !.procs[p].pc =
                   IF docs.exists THEN "listdir" ELSE "makedirs"]
    /\ UNCHANGED docs
    /\ Inert

\* os.makedirs(docs_dir): FileExistsError when the directory is there by
\* now, which the except clause of search_docs turns into a failure
Makedirs(p) ==
    /\ At(p, "makedirs")
    /\ IF docs.exists
       THEN /\ probe' = [probe EXCEPT
                           !.procs[p].pc = "done",
                           !.procs[p].result =
                             Failure(<<"[Errno 17] File exists: 'docs'">>)]
            /\ UNCHANGED docs
       ELSE /\ probe' = [probe EXCEPT !.procs[p].pc = "write",
                                      !.procs[p].todo = SampleDocsOrder]
            /\ docs' = [exists |-> TRUE, files |-> {}]
    /\ Inert

\* _create_sample_docs: the next file of the corpus is written
WriteDoc(p) ==
    /\ At(p, "write")
    /\ LET todo == probe.procs[p].todo IN
       /\ docs' = [docs EXCEPT !.files = @ \cup {Head(todo)}]
       /\ probe' = [probe EXCEPT
                      !.procs[p].todo = Tail(todo),
                      !.procs[p].pc = IF Tail(todo) = <<>> THEN "listdir"
                                      ELSE "write"]
    /\ Inert

\* os.listdir and the search over the files that are there
ListAndSearch(p) ==
    /\ At(p, "listdir")
    /\ probe' = [probe EXCEPT
                   !.procs[p].pc = "done",
                   !.procs[p].result =
                     search_docs(probe.procs[p].query, Num(3), docs)]
    /\ UNCHANGED docs
    /\ Inert

NextConcurrent ==
    \/ StartSearches
    \/ \E p \in Procs :
         PathExists(p) \/ Makedirs(p) \/ WriteDoc(p) \/ ListAndSearch(p)

SpecConcurrent == InitTools /\ [][NextConcurrent]_vars

\* C24 (as claimed): under every interleaving of two runs, every tool result
\* a run receives is the one it receives when it executes alone: the
\* first-use creation of the sample corpus is never seen by a concurrent
\* search_docs call as a failure or as a partial corpus.
C24_ConcurrentRunsDoNotInterfere ==
    probe.fn = "concurrent"
    => \A p \in Procs :
         probe.procs[p].pc = "done"
         => probe.procs[p].result =
              search_docs(probe.procs[p].query, Num(3), probe.before)

====
